---- MODULE Spec2Model ----
(***************************************************************************)
(* Model of the GoFile downloader (src/gofile.js) and of the way the web   *)
(* server (src/server.js) drives it: token acquisition, recursive          *)
(* resolution of the remote tree into the manifest, the resumable          *)
(* transfer of each manifest entry, and the archive organizer.             *)
(*                                                                         *)
(* File contents are abstracted to their sizes.  The remote side (the      *)
(* GoFile API and the file hosts) is the environment: every response it    *)
(* can give is a nondeterministic choice.                                  *)
(***************************************************************************)
EXTENDS Integers, Sequences, FiniteSets, TLC

\* ------------------------------------------------------------------ bounds
\* number of download invocations started in one behaviour
MaxRuns == 2
\* largest size a partial file may grow to (caps a remote that over-delivers)
MaxPartSize == 3
\* number of invocations the server may have in flight on its one downloader
NumInv == 2

Inv == 1..NumInv

\* ------------------------------------------------------- values and markers
Absent == -1          \* existsSync(path) = false
NaNSeg == -1          \* a header segment that parseInt turns into NaN
EmptySeg == -2        \* an empty header segment (the empty string)
NoHeader == << >>     \* response.headers.get(...) = null
NoId == "none"
NoToken == 0

\* ------------------------------------------------------------ the remote
\* Remote nodes by content id.  Child ids are GoFile's UUID-like strings,
\* never canonical array indexes, so for..in over `children` enumerates
\* them in the order the API response lists them.
Nodes ==
  [ r1  |-> [type |-> "folder", children |-> <<"F2", "fa">>],
    F2  |-> [type |-> "folder", children |-> <<"fm">>],
    r2  |-> [type |-> "folder", children |-> <<"F3", "fa">>],
    F3  |-> [type |-> "folder", children |-> <<"F4">>],
    F4  |-> [type |-> "folder", children |-> <<"fa2">>],
    F0  |-> [type |-> "folder", children |-> << >>],
    fa  |-> [type |-> "file", name |-> "a.txt", link |-> "La",  size |-> 2],
    fm  |-> [type |-> "file", name |-> "m.zip", link |-> "Lm",  size |-> 1],
    fa2 |-> [type |-> "file", name |-> "a.txt", link |-> "La2", size |-> 3],
    fe  |-> [type |-> "file", name |-> "e.txt", link |-> "Le",  size |-> 0] ]

NodeIds == DOMAIN Nodes

FileIds == {n \in NodeIds : Nodes[n].type = "file"}

Names == {Nodes[n].name : n \in FileIds}

Links == {Nodes[n].link : n \in FileIds}

\* the size of the remote file behind a direct link
RemoteSize(link) == Nodes[CHOOSE n \in FileIds : Nodes[n].link = link].size

\* the contents a caller may ask for: a folder with a nested folder, a
\* deeper tree, a single file, an empty folder
Roots == {"r1", "r2", "fe", "F0"}

\* the URLs the caller may submit for the content `id`, as the result of
\* url.split('/'): the share link, a link to content that no longer
\* exists, a link of another shape, and a link whose last segment is empty
Urls(id) ==
  { <<"https:", "", "gofile.io", "d", id>>,
    <<"https:", "", "gofile.io", "d", "gone">>,
    <<"https:", "", "gofile.io", "x", id>>,
    <<"https:", "", "gofile.io", "d", "">> }

\* line 280: the separator ' - ', character by character
Separator == <<" ", "-", " ">>

\* top-level items of the archive m.zip in readdir order: the name as a
\* sequence of characters ("R - L", "Bad", "A - B - C", " - X", "c.j"), and
\* whether the item is a directory
ZipItems ==
  << [name |-> <<"R", " ", "-", " ", "L">>, dir |-> TRUE],
     [name |-> <<"B", "a", "d">>, dir |-> TRUE],
     [name |-> <<"A", " ", "-", " ", "B", " ", "-", " ", "C">>,
      dir |-> TRUE],
     [name |-> <<" ", "-", " ", "X">>, dir |-> TRUE],
     [name |-> <<"c", ".", "j">>, dir |-> FALSE] >>

\* what may go wrong inside organizeMusicFolder: nothing, the extraction
\* (line 309), the copy of a unit (line 326), the removal of the archive
\* (line 340), the removal of the extraction directory (line 341)
OrgFaults == {"none", "unzip", "cp", "unlink", "rm"}

Statuses == {200, 204, 206, 404}

\* ----------------------------------------------------------------- state
VARIABLES
  inv,                  \* per invocation: position and locals of download()
  filesInfo,            \* this.filesInfo: index -> manifest entry
  recursiveFilesIndex,  \* this.recursiveFilesIndex
  token,                \* this.token
  tokenCounter,         \* tokens the remote has issued so far
  final,                \* download root: name -> size of the file, or Absent
  part,                 \* download root: name -> size of name.part, or Absent
  dirs,                 \* download root: names of the directories in it
  music,                \* music library: the directories below the root
  musicDir,             \* this.musicDir is configured
  root,                 \* the content the caller downloads
  runs,                 \* download invocations started so far
  lastRun               \* history: the invocation that ended last

vars == <<inv, filesInfo, recursiveFilesIndex, token, tokenCounter,
          final, part, dirs, music, musicDir, root, runs, lastRun>>

disk == <<final, part, dirs, music>>

\* the organizer's record of one run: the fault that struck, whether the
\* archive was extracted, the messages of lines 328, 330, 333 and 345, and
\* the parse of every directory item
NoOrg ==
  [fault |-> "none", extracted |-> FALSE, moved |-> 0, exists |-> 0,
   itemErrors |-> 0, errors |-> 0, units |-> << >>]

\* locals of one invocation; the fields after `logged` are history
IdleInv ==
  [ pc |-> "idle", url |-> << >>, err |-> "none",
    stack |-> << >>, pending |-> NoId,
    queue |-> << >>, cur |-> 0,
    partSize |-> 0, hasRange |-> FALSE, status |-> 0,
    contentLength |-> NoHeader, totalSize |-> NoHeader,
    downloadedSize |-> 0, outcome |-> "none", logged |-> 0,
    requested |-> FALSE, organized |-> FALSE, finished |-> FALSE,
    progressed |-> FALSE, reported |-> 0, org |-> NoOrg,
    nreq |-> 0, tokenReqs |-> 0, myToken |-> NoToken, usedTokens |-> {},
    processed |-> << >>, outcomes |-> << >>,
    disk0 |-> << >>, entry0 |-> << >> ]

NoFiles == [k \in {} |-> 0]

NoRun == [url |-> << >>, clean |-> FALSE]

\* ------------------------------------------------------- pure functions
\* the manifest entry built from a file node
EntryOf(id) ==
  [filename |-> Nodes[id].name, link |-> Nodes[id].link]

\* mutant: the entries are taken by descending key
ObjectValues_Desc(f) ==
  [j \in 1..Cardinality(DOMAIN f) |->
     f[CHOOSE k \in DOMAIN f : Cardinality({m \in DOMAIN f : m > k}) = j - 1]]

\* Object.values(this.filesInfo): the entries by ascending integer key
ObjectValues(f) ==
  [j \in 1..Cardinality(DOMAIN f) |->
     f[CHOOSE k \in DOMAIN f : Cardinality({m \in DOMAIN f : m < k}) = j - 1]]

\* the synchronous part of parseLinksRecursively after a response: walk the
\* children of the folder on top of the stack until a sub-folder has to be
\* fetched (pending) or every open folder is exhausted
RECURSIVE Walk(_, _, _)
Walk(stack, fi, idx) ==
  IF stack = << >>
  THEN [stack |-> stack, pending |-> NoId, fi |-> fi, idx |-> idx]
  ELSE LET top  == stack[Len(stack)]
           kids == Nodes[top.id].children
           rest == SubSeq(stack, 1, Len(stack) - 1)
       IN IF top.i > Len(kids)
          THEN Walk(rest, fi, idx)
          ELSE LET child == kids[top.i]
                   next  == Append(rest, [id |-> top.id, i |-> top.i + 1])
               IN IF Nodes[child].type = "folder"
                  THEN [stack |-> next, pending |-> child,
                        fi |-> fi, idx |-> idx]
                  ELSE Walk(next,
                            ((idx + 1) :> EntryOf(child)) @@ fi,
                            idx + 1)

\* what happens to the manifest when the node `id` has been fetched
Visit(id, stack, fi, idx) ==
  IF Nodes[id].type = "folder"
  THEN Walk(Append(stack, [id |-> id, i |-> 1]), fi, idx)
  ELSE Walk(stack, ((idx + 1) :> EntryOf(id)) @@ fi, idx + 1)

\* JavaScript truthiness of a header value (null and '' are falsy)
Truthy(h) == h # NoHeader /\ h # <<EmptySeg>>

\* parseInt of a header value: the leading number, NaN (= NaNSeg) otherwise
ParseInt(h) ==
  IF h # NoHeader /\ h[1] >= 0 THEN h[1] ELSE NaNSeg

\* contentLength.split('/').pop()
SplitPop(h) == <<h[Len(h)]>>

\* lines 218-220: the total size the transfer is checked against
TotalSize(partSize, contentLength) ==
  IF partSize = 0 THEN contentLength
  ELSE IF Truthy(contentLength) THEN SplitPop(contentLength) ELSE NoHeader

\* mutant: the status of a resumed request is not compared with 206
StatusRejected_AnyOk(partSize, status) ==
  \/ ~(status >= 200 /\ status <= 299)
  \/ (partSize = 0 /\ status # 200)

\* lines 211-213: the response is rejected
StatusRejected(partSize, status) ==
  \/ ~(status >= 200 /\ status <= 299)
  \/ (partSize = 0 /\ status # 200)
  \/ (partSize > 0 /\ status # 206)

\* mutant: the skip test compares the size with 1 instead of 0
AlreadyDownloaded_OffByOne(name) == final[name] # Absent /\ final[name] > 1

\* line 190: existsSync(filepath) && statSync(filepath).size > 0
AlreadyDownloaded(name) == final[name] # Absent /\ final[name] > 0

\* mutant: a partial file at least as large as the total is promoted
SizeMatches_AtLeast(size, totalSize) == size >= ParseInt(totalSize)

\* line 263: statSync(tmpFile).size === parseInt(totalSize)
SizeMatches(size, totalSize) == size = ParseInt(totalSize)

\* sourcePath.endsWith('.zip') and basename(sourcePath, '.zip')
EndsWithZip(name) == name \in {"m.zip"}

Basename(name) == IF name = "m.zip" THEN "m" ELSE name

\* the headers a remote may send as content-length for a file of size T
\* when the request asked for the bytes from k on: none, the size, a text
\* that is no number, and for a range the length of the rest, alone or
\* followed by '/' and the size
HeaderChoices(T, k) ==
  {NoHeader, <<T>>, <<NaNSeg>>} \cup
  (IF 0 < k /\ k < T THEN {<<T - k>>, <<T - k, T>>} ELSE {})

\* String.prototype.startsWith on sequences of characters
StartsWith(s, p) == Len(p) <= Len(s) /\ SubSeq(s, 1, Len(p)) = p

\* String.prototype.split(sep)
RECURSIVE Split(_, _)
Split(s, sep) ==
  IF s = << >> THEN << << >> >>
  ELSE IF StartsWith(s, sep)
  THEN << << >> >> \o Split(SubSeq(s, Len(sep) + 1, Len(s)), sep)
  ELSE LET r == Split(Tail(s), sep)
       IN << <<Head(s)>> \o r[1] >> \o Tail(r)

\* Array.prototype.join(sep)
RECURSIVE Join(_, _)
Join(parts, sep) ==
  IF parts = << >> THEN << >>
  ELSE IF Len(parts) = 1 THEN parts[1]
  ELSE parts[1] \o sep \o Join(Tail(parts), sep)

RECURSIVE TrimStart(_)
TrimStart(s) ==
  IF s # << >> /\ Head(s) = " " THEN TrimStart(Tail(s)) ELSE s

RECURSIVE TrimEnd(_)
TrimEnd(s) ==
  IF s # << >> /\ s[Len(s)] = " "
  THEN TrimEnd(SubSeq(s, 1, Len(s) - 1)) ELSE s

\* String.prototype.trim()
Trim(s) == TrimEnd(TrimStart(s))

\* lines 279-290: parseArtistAlbum(folderName); ok is FALSE where the code
\* throws
ParseArtistAlbum(folderName) ==
  LET parts == Split(folderName, Separator)
  IN IF Len(parts) < 2
     THEN [ok |-> FALSE, artist |-> << >>, album |-> << >>]
     ELSE [ok |-> TRUE, artist |-> Trim(parts[1]),
           album |-> Trim(Join(Tail(parts), Separator))]

\* path.join below the music root: empty segments vanish, and the empty
\* path is the music root itself
PathJoin(segs) == SelectSeq(segs, LAMBDA x : x # << >>)

\* mutant: a unit whose name does not parse ends the loop
RECURSIVE OrganizeItems_AbortOnInvalid(_, _, _, _)
OrganizeItems_AbortOnInvalid(items, m, o, cpFails) ==
  IF items = << >> THEN [music |-> m, org |-> o]
  ELSE LET item == Head(items)
           rest == Tail(items)
           aa   == ParseArtistAlbum(item.name)
           artistPath == PathJoin(<<aa.artist>>)
           targetPath == PathJoin(<<aa.artist, aa.album>>)
           unit == [name |-> item.name, ok |-> aa.ok, artist |-> aa.artist,
                    album |-> aa.album, target |-> targetPath]
           seen == [o EXCEPT !.units = Append(@, unit)]
           made == m \cup ({artistPath} \ {<< >>})
       IN IF ~item.dir
          THEN OrganizeItems_AbortOnInvalid(rest, m, o, cpFails)
          ELSE IF ~aa.ok
          THEN [music |-> m, org |-> [seen EXCEPT !.itemErrors = @ + 1]]
          ELSE IF targetPath = << >> \/ targetPath \in made
          THEN OrganizeItems_AbortOnInvalid(
                 rest, made, [seen EXCEPT !.exists = @ + 1], cpFails)
          ELSE IF cpFails
          THEN OrganizeItems_AbortOnInvalid(
                 rest, made, [seen EXCEPT !.itemErrors = @ + 1,
                                          !.fault = "cp"], FALSE)
          ELSE OrganizeItems_AbortOnInvalid(
                 rest, made \cup {targetPath},
                 [seen EXCEPT !.moved = @ + 1], cpFails)

\* lines 313-337: the loop over the extracted items; m is the music library
\* (the directories below the music root), o the record so far, cpFails
\* whether the next cp (line 326) throws
RECURSIVE OrganizeItems(_, _, _, _)
OrganizeItems(items, m, o, cpFails) ==
  IF items = << >> THEN [music |-> m, org |-> o]
  ELSE LET item == Head(items)
           rest == Tail(items)
           aa   == ParseArtistAlbum(item.name)
           artistPath == PathJoin(<<aa.artist>>)
           targetPath == PathJoin(<<aa.artist, aa.album>>)
           unit == [name |-> item.name, ok |-> aa.ok, artist |-> aa.artist,
                    album |-> aa.album, target |-> targetPath]
           seen == [o EXCEPT !.units = Append(@, unit)]
           made == m \cup ({artistPath} \ {<< >>})
       IN IF ~item.dir THEN OrganizeItems(rest, m, o, cpFails)
          ELSE IF ~aa.ok
          THEN OrganizeItems(rest, m,
                             [seen EXCEPT !.itemErrors = @ + 1], cpFails)
          ELSE IF targetPath = << >> \/ targetPath \in made
          THEN OrganizeItems(rest, made,
                             [seen EXCEPT !.exists = @ + 1], cpFails)
          ELSE IF cpFails
          THEN OrganizeItems(rest, made,
                             [seen EXCEPT !.itemErrors = @ + 1,
                                          !.fault = "cp"], FALSE)
          ELSE OrganizeItems(rest, made \cup {targetPath},
                             [seen EXCEPT !.moved = @ + 1], cpFails)

\* mutant: the archive and the extraction directory are removed only when
\* no unit gave an error
OrganizeMusicFolder_CleanIfAllFine(name, fault) ==
  IF ~musicDir \/ ~EndsWithZip(name)
  THEN [final |-> final, dirs |-> dirs, music |-> music, org |-> NoOrg]
  ELSE IF fault = "unzip"
  THEN [final |-> final, dirs |-> dirs \cup {Basename(name)},
        music |-> music,
        org |-> [NoOrg EXCEPT !.fault = fault, !.errors = 1]]
  ELSE LET r == OrganizeItems(ZipItems, music,
                              [NoOrg EXCEPT !.extracted = TRUE],
                              fault = "cp")
       IN IF fault = "unlink" \/ r.org.itemErrors > 0
          THEN [final |-> final, dirs |-> dirs \cup {Basename(name)},
                music |-> r.music,
                org |-> [r.org EXCEPT !.errors = 1]]
          ELSE IF fault = "rm"
          THEN [final |-> [final EXCEPT ![name] = Absent],
                dirs |-> dirs \cup {Basename(name)},
                music |-> r.music,
                org |-> [r.org EXCEPT !.fault = fault, !.errors = 1]]
          ELSE [final |-> [final EXCEPT ![name] = Absent],
                dirs  |-> dirs \ {Basename(name)},
                music |-> r.music, org |-> r.org]

\* lines 297-347: organizeMusicFolder(sourcePath) as a whole; fault is what
\* goes wrong on the way
OrganizeMusicFolder(name, fault) ==
  IF ~musicDir \/ ~EndsWithZip(name)
  THEN [final |-> final, dirs |-> dirs, music |-> music, org |-> NoOrg]
  ELSE IF fault = "unzip"
  THEN [final |-> final, dirs |-> dirs \cup {Basename(name)},
        music |-> music,
        org |-> [NoOrg EXCEPT !.fault = fault, !.errors = 1]]
  ELSE LET r == OrganizeItems(ZipItems, music,
                              [NoOrg EXCEPT !.extracted = TRUE],
                              fault = "cp")
       IN IF fault = "unlink"
          THEN [final |-> final, dirs |-> dirs \cup {Basename(name)},
                music |-> r.music,
                org |-> [r.org EXCEPT !.fault = fault, !.errors = 1]]
          ELSE IF fault = "rm"
          THEN [final |-> [final EXCEPT ![name] = Absent],
                dirs |-> dirs \cup {Basename(name)},
                music |-> r.music,
                org |-> [r.org EXCEPT !.fault = fault, !.errors = 1]]
          ELSE [final |-> [final EXCEPT ![name] = Absent],
                dirs  |-> dirs \ {Basename(name)},
                music |-> r.music, org |-> r.org]

\* ------------------------------------------------------------------ Init
Init ==
  /\ inv = [i \in Inv |-> IdleInv]
  /\ filesInfo = NoFiles
  /\ recursiveFilesIndex = 0
  /\ token = NoToken
  /\ tokenCounter = 0
  /\ final = [n \in Names |-> Absent]
  /\ part = [n \in Names |-> Absent]
  /\ dirs = {}
  /\ music = {}
  /\ musicDir \in BOOLEAN
  /\ root \in Roots
  /\ runs = 0
  /\ lastRun = NoRun

\* --------------------------------------------------------------- helpers
Set(i, rec) == inv' = [inv EXCEPT ![i] = rec]

\* mutant: download() ends without its finally block
Finally_KeepManifest(i, rec) ==
  /\ Set(i, rec)
  /\ UNCHANGED <<filesInfo, recursiveFilesIndex>>

\* the finally block of download(), lines 175-178
Finally(i, rec) ==
  /\ Set(i, rec)
  /\ filesInfo' = NoFiles
  /\ recursiveFilesIndex' = 0

Raised(i, kind) == [inv[i] EXCEPT !.pc = "raised", !.err = kind]

Entry(i) == inv[i].queue[inv[i].cur]

\* the final files a kill of the process may leave: those there are, or,
\* when the kill falls into the cp of line 264, the target with only the
\* first j bytes of the partial file written
CopyCuts ==
  {final} \cup
  { [final EXCEPT ![Entry(c[1]).filename] = c[2]] :
      c \in { d \in Inv \X (0..MaxPartSize) :
                /\ inv[d[1]].pc = "copy"
                /\ part[Entry(d[1]).filename] # Absent
                /\ d[2] < part[Entry(d[1]).filename] } }

\* ------------------------------------------------------------ download()
\* lines 155-163 up to the token request
StartBody(i, url) ==
  /\ inv[i].pc = "idle"
  /\ LET me == [IdleInv EXCEPT !.url = url, !.disk0 = disk]
     IN IF url[Len(url) - 1] # "d"
        THEN Finally(i, [me EXCEPT !.pc = "raised", !.err = "InvalidInput"])
        ELSE /\ Set(i, [me EXCEPT !.pc = "getToken", !.tokenReqs = 1])
             /\ UNCHANGED <<filesInfo, recursiveFilesIndex>>
  /\ UNCHANGED <<token, tokenCounter, final, part, dirs, music, musicDir,
                 root, lastRun>>

\* the caller (server.js:57-78) invokes download(url), one of at most
\* MaxRuns invocations
Start(i, url) ==
  /\ runs < MaxRuns
  /\ runs' = runs + 1
  /\ StartBody(i, url)

\* the invocation is the only one in flight (a caller that awaits download)
StartAlone(i, url) ==
  /\ \A j \in Inv : inv[j].pc = "idle"
  /\ Start(i, url)

\* the token the remote issues next: tokens are told apart by a number
\* that comes round again only after more than MaxRuns issues
TokenSpace == MaxRuns + 1

NextToken == (tokenCounter % TokenSpace) + 1

\* lines 45-55 and 163-117: the token arrives, the root is requested
GetTokenOk(i) ==
  /\ inv[i].pc = "getToken"
  /\ tokenCounter' = NextToken
  /\ token' = NextToken
  /\ Set(i, [inv[i] EXCEPT !.pc = "resolve",
                           !.pending = inv[i].url[Len(inv[i].url)],
                           !.myToken = NextToken,
                           !.usedTokens = {NextToken}])
  /\ UNCHANGED <<filesInfo, recursiveFilesIndex, final, part, dirs, music,
                 musicDir, root, runs, lastRun>>

\* lines 45-53: the request fails or data.status is not 'ok'
GetTokenFail(i) ==
  /\ inv[i].pc = "getToken"
  /\ Finally(i, Raised(i, "AuthFailure"))
  /\ UNCHANGED <<token, tokenCounter, final, part, dirs, music, musicDir,
                 root, runs, lastRun>>

\* mutant: a directory is created in the download root for every content
\* node as it is resolved
ResolveOk_Mkdir(i) ==
  /\ inv[i].pc = "resolve"
  /\ inv[i].pending \in NodeIds
  /\ LET w == Visit(inv[i].pending, inv[i].stack, filesInfo,
                    recursiveFilesIndex)
     IN /\ filesInfo' = w.fi
        /\ recursiveFilesIndex' = w.idx
        /\ Set(i, [inv[i] EXCEPT
                     !.stack = w.stack,
                     !.pending = w.pending,
                     !.pc = IF w.pending = NoId THEN "resolved" ELSE "resolve",
                     !.usedTokens = IF w.pending = NoId THEN @
                                    ELSE @ \cup {token}])
  /\ dirs' = dirs \cup {inv[i].pending}
  /\ UNCHANGED <<token, tokenCounter, final, part, music, musicDir,
                 root, runs, lastRun>>

\* lines 117-147: a content response with status 'ok'
ResolveOk(i) ==
  /\ inv[i].pc = "resolve"
  /\ inv[i].pending \in NodeIds
  /\ LET w == Visit(inv[i].pending, inv[i].stack, filesInfo,
                    recursiveFilesIndex)
     IN /\ filesInfo' = w.fi
        /\ recursiveFilesIndex' = w.idx
        /\ Set(i, [inv[i] EXCEPT
                     !.stack = w.stack,
                     !.pending = w.pending,
                     !.pc = IF w.pending = NoId THEN "resolved" ELSE "resolve",
                     !.usedTokens = IF w.pending = NoId THEN @
                                    ELSE @ \cup {token}])
  /\ UNCHANGED <<token, tokenCounter, final, part, dirs, music, musicDir,
                 root, runs, lastRun>>

\* lines 117-122: the request fails or data.status is not 'ok'
ResolveFail(i) ==
  /\ inv[i].pc = "resolve"
  /\ Finally(i, Raised(i, "ResolutionFailure"))
  /\ UNCHANGED <<token, tokenCounter, final, part, dirs, music, musicDir,
                 root, runs, lastRun>>

\* lines 167-172: the manifest is empty, or the loop takes its snapshot
LoopStart(i) ==
  /\ inv[i].pc = "resolved"
  /\ IF DOMAIN filesInfo = {}
     THEN Finally(i, [inv[i] EXCEPT !.pc = "done"])
     ELSE /\ Set(i, [inv[i] EXCEPT !.pc = "begin",
                                   !.queue = ObjectValues(filesInfo),
                                   !.cur = 1])
          /\ UNCHANGED <<filesInfo, recursiveFilesIndex>>
  /\ UNCHANGED <<token, tokenCounter, final, part, dirs, music, musicDir,
                 root, runs, lastRun>>

\* ------------------------------------------------------ downloadContent()
KeepDownloader == UNCHANGED <<filesInfo, recursiveFilesIndex, token,
                              tokenCounter, musicDir, root, runs,
                              lastRun>>

\* lines 188-209: the skip test, the partial file's size, the request
DCBegin(i) ==
  /\ inv[i].pc = "begin"
  /\ LET name == Entry(i).filename
         me   == [inv[i] EXCEPT !.entry0 = disk,
                                !.processed = Append(@, Entry(i).link)]
     IN IF AlreadyDownloaded(name)
        THEN Set(i, [me EXCEPT !.pc = "ended", !.outcome = "Skipped"])
        ELSE Set(i, [me EXCEPT
                       !.pc = "fetching",
                       !.partSize = IF part[name] # Absent
                                    THEN part[name] ELSE 0,
                       !.hasRange = (part[name] # Absent),
                       !.requested = TRUE,
                       !.nreq = @ + 1,
                       !.usedTokens = @ \cup {token}])
  /\ UNCHANGED <<final, part, dirs, music>>
  /\ KeepDownloader

\* line 209: fetch rejects (network error); nothing in download() catches it
DCFetchError(i) ==
  /\ inv[i].pc = "fetching"
  /\ Finally(i, Raised(i, "TransferNetwork"))
  /\ UNCHANGED <<token, tokenCounter, final, part, dirs, music, musicDir,
                 root, runs, lastRun>>

\* lines 209-227: the response arrives: status test, total size, and the
\* write stream opened in append mode
DCResponseWith(i, status, header) ==
  /\ inv[i].pc = "fetching"
  /\ LET name  == Entry(i).filename
         total == TotalSize(inv[i].partSize, header)
         me    == [inv[i] EXCEPT !.status = status,
                                 !.contentLength = header]
     IN IF StatusRejected(inv[i].partSize, status)
        THEN /\ Set(i, [me EXCEPT !.pc = "ended", !.outcome = "Failed",
                                  !.logged = @ + 1])
             /\ UNCHANGED part
        ELSE IF ~Truthy(total)
        THEN /\ Set(i, [me EXCEPT !.pc = "ended", !.outcome = "Failed",
                                  !.totalSize = total, !.logged = @ + 1])
             /\ UNCHANGED part
        ELSE /\ Set(i, [me EXCEPT !.pc = "stream", !.totalSize = total,
                                  !.downloadedSize = inv[i].partSize])
             /\ part' = [part EXCEPT ![name] = IF @ = Absent THEN 0 ELSE @]
  /\ UNCHANGED <<final, dirs, music>>
  /\ KeepDownloader

\* the response of a remote that may answer anything
DCResponse(i) ==
  /\ inv[i].pc = "fetching"
  /\ \E status \in Statuses :
     \E header \in HeaderChoices(RemoteSize(Entry(i).link),
                                 inv[i].partSize) :
       DCResponseWith(i, status, header)

\* lines 234-254: one byte of the body is piped to the partial file; the
\* first chunk always passes the throttle test of line 238 (lastUpdate is
\* 0), so the callback that server.js:67 installed gets a message; a later
\* chunk passes it when 500 ms have gone by (emit). `reported` is the
\* downloadedSize the last message was computed from (line 241)
DCData(i) ==
  /\ inv[i].pc = "stream"
  /\ part[Entry(i).filename] # Absent
  /\ part[Entry(i).filename] < MaxPartSize
  /\ part' = [part EXCEPT ![Entry(i).filename] = @ + 1]
  /\ \E emit \in BOOLEAN :
       /\ ~inv[i].progressed => emit
       /\ Set(i, [inv[i] EXCEPT
                    !.downloadedSize = @ + 1,
                    !.progressed = TRUE,
                    !.reported = IF emit THEN inv[i].downloadedSize + 1
                                 ELSE @])
  /\ UNCHANGED <<final, dirs, music>>
  /\ KeepDownloader

\* lines 234-249: a chunk arrives, passes the throttle test, and the
\* progress callback throws. The call of line 248 is inside the 'data'
\* listener with no try around it, and this listener was added (line 234)
\* before the one of pipe (line 254): the exception leaves emit before
\* the chunk reaches the file stream and, with nothing to catch it
\* (server.js installs no uncaughtException handler), ends the process
\* like a kill. `err` of the idle invocation keeps the cause until the
\* next start
DCCallbackThrows(i) ==
  /\ inv[i].pc = "stream"
  /\ part[Entry(i).filename] # Absent
  /\ part[Entry(i).filename] < MaxPartSize
  /\ inv' = [j \in Inv |-> IF j = i
                            THEN [IdleInv EXCEPT !.err = "CallbackError"]
                            ELSE IdleInv]
  /\ filesInfo' = NoFiles
  /\ recursiveFilesIndex' = 0
  /\ token' = NoToken
  /\ lastRun' = NoRun
  /\ final' \in CopyCuts
  /\ UNCHANGED <<tokenCounter, part, dirs, music, musicDir, root, runs>>

\* mutant: the partial file is deleted when the body errors
DCStreamError_Cleanup(i) ==
  /\ inv[i].pc = "stream"
  /\ Finally(i, Raised(i, "TransferStream"))
  /\ part' = [part EXCEPT ![Entry(i).filename] = Absent]
  /\ UNCHANGED <<token, tokenCounter, final, dirs, music, musicDir,
                 root, runs, lastRun>>

\* line 255: the body errors in mid-transfer, the promise rejects
DCStreamError(i) ==
  /\ inv[i].pc = "stream"
  /\ Finally(i, Raised(i, "TransferStream"))
  /\ UNCHANGED <<token, tokenCounter, final, part, dirs, music, musicDir,
                 root, runs, lastRun>>

\* lines 256-263: the body ends, the stream finishes, the size is compared
DCStreamEnd(i) ==
  /\ inv[i].pc = "stream"
  /\ LET name == Entry(i).filename
     IN IF part[name] = Absent
        THEN Finally(i, Raised(i, "StatError"))
        ELSE /\ IF SizeMatches(part[name], inv[i].totalSize)
                THEN Set(i, [inv[i] EXCEPT !.pc = "copy", !.finished = TRUE])
                ELSE Set(i, [inv[i] EXCEPT !.pc = "ended", !.finished = TRUE,
                                           !.outcome = "Failed"])
             /\ UNCHANGED <<filesInfo, recursiveFilesIndex>>
  /\ UNCHANGED <<token, tokenCounter, final, part, dirs, music, musicDir,
                 root, runs, lastRun>>

\* line 264: cp(tmpFile, filepath)
DCCopy(i) ==
  /\ inv[i].pc = "copy"
  /\ LET name == Entry(i).filename
     IN IF part[name] = Absent
        THEN /\ Finally(i, Raised(i, "CopyError"))
             /\ UNCHANGED final
        ELSE /\ final' = [final EXCEPT ![name] = part[name]]
             /\ Set(i, [inv[i] EXCEPT !.pc = "organize"])
             /\ UNCHANGED <<filesInfo, recursiveFilesIndex>>
  /\ UNCHANGED <<token, tokenCounter, part, dirs, music, musicDir, root,
                 runs, lastRun>>

\* mutant: a fault inside the organizer leaves downloadContent as an
\* exception
DCOrganize_Propagate(i, fault) ==
  /\ inv[i].pc = "organize"
  /\ LET r == OrganizeMusicFolder(Entry(i).filename, fault)
     IN /\ final' = r.final
        /\ dirs' = r.dirs
        /\ music' = r.music
        /\ IF r.org.fault = "none"
           THEN /\ Set(i, [inv[i] EXCEPT !.pc = "rm", !.organized = TRUE,
                                         !.org = r.org])
                /\ UNCHANGED <<filesInfo, recursiveFilesIndex>>
           ELSE Finally(i, [Raised(i, "OrganizeError") EXCEPT
                              !.organized = TRUE, !.org = r.org])
  /\ UNCHANGED <<part, token, tokenCounter, musicDir, root, runs, lastRun>>

\* line 265: organizeMusicFolder(filepath)
DCOrganize(i, fault) ==
  /\ inv[i].pc = "organize"
  /\ LET r == OrganizeMusicFolder(Entry(i).filename, fault)
     IN /\ final' = r.final
        /\ dirs' = r.dirs
        /\ music' = r.music
        /\ Set(i, [inv[i] EXCEPT !.pc = "rm", !.organized = TRUE,
                                 !.org = r.org])
  /\ UNCHANGED part
  /\ KeepDownloader

\* lines 266-268: rm(tmpFile) and the completion message
DCRemove(i) ==
  /\ inv[i].pc = "rm"
  /\ LET name == Entry(i).filename
     IN IF part[name] = Absent
        THEN /\ Finally(i, Raised(i, "RmError"))
             /\ UNCHANGED part
        ELSE /\ part' = [part EXCEPT ![name] = Absent]
             /\ Set(i, [inv[i] EXCEPT !.pc = "ended",
                                      !.outcome = "Completed"])
             /\ UNCHANGED <<filesInfo, recursiveFilesIndex>>
  /\ UNCHANGED <<token, tokenCounter, final, dirs, music, musicDir, root,
                 runs, lastRun>>

\* lines 172-178: downloadContent returns; next entry, or the end of
\* download() through its finally block
DCReturn(i) ==
  /\ inv[i].pc = "ended"
  /\ LET me == [inv[i] EXCEPT
                  !.outcomes = Append(@, inv[i].outcome),
                  !.partSize = 0, !.hasRange = FALSE, !.status = 0,
                  !.contentLength = NoHeader, !.totalSize = NoHeader,
                  !.downloadedSize = 0, !.outcome = "none", !.logged = 0,
                  !.requested = FALSE, !.organized = FALSE,
                  !.finished = FALSE, !.progressed = FALSE,
                  !.reported = 0,
                  !.org = NoOrg, !.entry0 = << >>]
     IN IF inv[i].cur < Len(inv[i].queue)
        THEN /\ Set(i, [me EXCEPT !.pc = "begin", !.cur = @ + 1])
             /\ UNCHANGED <<filesInfo, recursiveFilesIndex>>
        ELSE Finally(i, [me EXCEPT !.pc = "done"])
  /\ UNCHANGED <<token, tokenCounter, final, part, dirs, music, musicDir,
                 root, runs, lastRun>>

\* server.js:79-87: the handler answers; the invocation is over
Respond(i) ==
  /\ inv[i].pc \in {"done", "raised"}
  /\ Set(i, IdleInv)
  /\ lastRun' = [url |-> inv[i].url,
                 clean |-> /\ inv[i].pc = "done"
                           /\ \A k \in 1..Len(inv[i].outcomes) :
                                inv[i].outcomes[k] \in {"Completed", "Skipped"}]
  /\ UNCHANGED <<filesInfo, recursiveFilesIndex, token, tokenCounter,
                 final, part, dirs, music, musicDir, root, runs>>

\* the process is killed and started again: the downloader is constructed
\* anew (lines 22-30), the disk keeps what was written
Interrupt ==
  /\ \E i \in Inv : inv[i].pc \notin {"idle", "done", "raised"}
  /\ inv' = [i \in Inv |-> IdleInv]
  /\ filesInfo' = NoFiles
  /\ recursiveFilesIndex' = 0
  /\ token' = NoToken
  /\ lastRun' = NoRun
  /\ final' \in CopyCuts
  /\ UNCHANGED <<tokenCounter, part, dirs, music, musicDir, root, runs>>

\* -------------------------------------------------------- specifications
Step(i) ==
  \/ GetTokenOk(i)
  \/ GetTokenFail(i)
  \/ ResolveOk(i)
  \/ ResolveFail(i)
  \/ LoopStart(i)
  \/ DCBegin(i)
  \/ DCFetchError(i)
  \/ DCResponse(i)
  \/ DCData(i)
  \/ DCCallbackThrows(i)
  \/ DCStreamError(i)
  \/ DCStreamEnd(i)
  \/ DCCopy(i)
  \/ \E fault \in OrgFaults : DCOrganize(i, fault)
  \/ DCRemove(i)
  \/ DCReturn(i)
  \/ Respond(i)

\* one caller that awaits each download before starting the next
Next ==
  \/ \E url \in Urls(root) : StartAlone(1, url)
  \/ Step(1)
  \/ Interrupt

Spec == Init /\ [][Next]_vars

\* the invocation is running JavaScript, not waiting for the network or
\* the disk: its next step comes without a turn of the event loop (the
\* continuation of an await on a settled promise, or plain sequential code)
Running(i) ==
  \/ inv[i].pc \in {"resolved", "begin", "ended", "done", "raised"}
  \/ /\ inv[i].pc = "organize"
     /\ (~musicDir \/ ~EndsWithZip(Entry(i).filename))

\* server.js:15 and 57-88: every POST /download runs download() on the one
\* shared downloader, and nothing makes a request wait for the one before;
\* the invocations interleave where they wait (run to completion), so an
\* invocation takes a step only when no other one is running
Turn(i) == \A j \in Inv \ {i} : ~Running(j)

NextServer ==
  \E i \in Inv :
    \/ \E url \in Urls(root) : Turn(i) /\ Start(i, url)
    \/ Turn(i) /\ GetTokenOk(i)
    \/ Turn(i) /\ GetTokenFail(i)
    \/ Turn(i) /\ ResolveOk(i)
    \/ Turn(i) /\ ResolveFail(i)
    \/ Turn(i) /\ LoopStart(i)
    \/ Turn(i) /\ DCBegin(i)
    \/ Turn(i) /\ DCFetchError(i)
    \/ Turn(i) /\ DCResponse(i)
    \/ Turn(i) /\ DCData(i)
    \/ Turn(i) /\ DCCallbackThrows(i)
    \/ Turn(i) /\ DCStreamError(i)
    \/ Turn(i) /\ DCStreamEnd(i)
    \/ Turn(i) /\ DCCopy(i)
    \/ \E fault \in OrgFaults : Turn(i) /\ DCOrganize(i, fault)
    \/ Turn(i) /\ DCRemove(i)
    \/ Turn(i) /\ DCReturn(i)
    \/ Turn(i) /\ Respond(i)

\* the server with no music root, asked for the single file or for the
\* empty folder
InitServer == Init /\ root \in {"fe", "F0"} /\ ~musicDir

SpecServer == InitServer /\ [][NextServer]_vars

\* ------------------------------------------------------------ the retry
\* a caller that invokes download again and again for the same share link
\* (server.js:57-78, one request after the other), against a remote that
\* does not change and honours Range: a request without Range gets 200 and
\* the whole file, `bytes=k-` with k below the size gets 206 and the
\* remaining bytes, and an offset at or past the end gets 416
Retry(i) ==
  /\ StartBody(i, <<"https:", "", "gofile.io", "d", root>>)
  /\ UNCHANGED runs

HonestStatus(i) ==
  IF ~inv[i].hasRange THEN 200
  ELSE IF inv[i].partSize < RemoteSize(Entry(i).link) THEN 206 ELSE 416

\* the content-length of that response (the body of a 416 is empty)
HonestLength(i) ==
  IF ~inv[i].hasRange THEN <<RemoteSize(Entry(i).link)>>
  ELSE IF inv[i].partSize < RemoteSize(Entry(i).link)
  THEN <<RemoteSize(Entry(i).link) - inv[i].partSize>>
  ELSE <<0>>

HonestResponse(i) ==
  /\ inv[i].pc = "fetching"
  /\ DCResponseWith(i, HonestStatus(i), HonestLength(i))

\* the bytes of the body received so far, and those the response declared
Delivered(i) == inv[i].downloadedSize - inv[i].partSize

Declared(i) == ParseInt(inv[i].contentLength)

\* the body brings its next byte, and ends when all declared bytes came
HonestData(i) == Delivered(i) < Declared(i) /\ DCData(i)

HonestEnd(i) == Delivered(i) = Declared(i) /\ DCStreamEnd(i)

\* the body breaks off, or the process is killed, after at least one new
\* byte of this attempt
BrokenAfterByte(i) == Delivered(i) >= 1 /\ DCStreamError(i)

KilledAfterByte(i) ==
  /\ inv[i].pc = "stream"
  /\ Delivered(i) >= 1
  /\ Interrupt

NextRetry ==
  \/ Retry(1)
  \/ GetTokenOk(1)
  \/ ResolveOk(1)
  \/ LoopStart(1)
  \/ DCBegin(1)
  \/ HonestResponse(1)
  \/ HonestData(1)
  \/ HonestEnd(1)
  \/ BrokenAfterByte(1)
  \/ KilledAfterByte(1)
  \/ DCCopy(1)
  \/ DCOrganize(1, "none")
  \/ DCRemove(1)
  \/ DCReturn(1)
  \/ Respond(1)

\* every handler that can run does run, and the caller never stops asking
SpecRetry == Init /\ [][NextRetry]_vars /\ WF_vars(NextRetry)

\* ================================================================ claims
\* the remote file behind the entry invocation i is processing
Total(i) == RemoteSize(Entry(i).link)

InEntry(i) == inv[i].pc \in {"fetching", "stream", "copy", "organize",
                             "rm", "ended"}

\* the entry of invocation i has ended after a resumed transfer that the
\* remote honoured: 206, a content-length of the T-k remaining bytes, and
\* exactly those bytes delivered before the body ended
ResumeHonoured(i) ==
  /\ inv[i].pc = "ended"
  /\ inv[i].requested
  /\ inv[i].hasRange
  /\ 0 < inv[i].partSize /\ inv[i].partSize < Total(i)
  /\ inv[i].status = 206
  /\ inv[i].contentLength = <<Total(i) - inv[i].partSize>>
  /\ inv[i].finished
  /\ inv[i].downloadedSize = Total(i)

\* C1: a transfer resumed from a partial file of size k, 0 < k < T, sends
\* a range request from byte k, and once the remote has delivered the
\* remaining T-k bytes the entry is Completed with a final file of size T.
C1_ResumeCompletes ==
  \A i \in Inv :
    /\ (InEntry(i) /\ inv[i].requested /\ inv[i].partSize > 0)
         => inv[i].hasRange
    /\ ResumeHonoured(i) =>
         /\ inv[i].outcome = "Completed"
         /\ \/ final[Entry(i).filename] = Total(i)
            \/ (musicDir /\ EndsWithZip(Entry(i).filename))

\* the name of the file the entry of invocation i is saved under
Name(i) == Entry(i).filename

\* the sizes of the final files when invocation i started, and when its
\* current entry began
FinalAtStart(i) == inv[i].disk0[1]

FinalAtBegin(i) == inv[i].entry0[1]

\* invocation i repeats the invocation that ended last, which processed
\* every entry without a failure
SecondRun(i) == lastRun.url = inv[i].url /\ lastRun.clean

\* C2 as stated: on a second run against the same URL every manifest entry
\* is Skipped and no transfer request is issued.
C2_SecondRunAllSkipped ==
  \A i \in Inv :
    (inv[i].pc = "ended" /\ SecondRun(i))
      => (inv[i].outcome = "Skipped" /\ ~inv[i].requested)

\* C2 amended: on a second run against the same URL every entry for which
\* the first run left a non-empty file at the final path is Skipped and no
\* transfer request is issued for it.
C2_SecondRunSkipsKept ==
  \A i \in Inv :
    (inv[i].pc = "ended" /\ lastRun.url = inv[i].url
       /\ FinalAtStart(i)[Name(i)] > 0)
      => (inv[i].outcome = "Skipped" /\ ~inv[i].requested)

\* a second run over a manifest of several entries that skipped them all
C2_Witness ==
  \E i \in Inv :
    /\ inv[i].pc = "ended" /\ SecondRun(i)
    /\ inv[i].cur = Len(inv[i].queue) /\ inv[i].cur >= 2
    /\ inv[i].outcome = "Skipped"
    /\ \A k \in 1..Len(inv[i].outcomes) : inv[i].outcomes[k] = "Skipped"
    /\ \A n \in {inv[i].queue[k].filename : k \in 1..Len(inv[i].queue)} :
         FinalAtStart(i)[n] > 0

\* C3: a transfer request that fails with a network error, or a body that
\* errors in mid-transfer, fails only its entry: download() does not raise.
C3_TransferFailureIsolated ==
  \A i \in Inv :
    inv[i].pc = "raised"
      => inv[i].err \notin {"TransferNetwork", "TransferStream"}

\* the status of the response suits the offset of the request
StatusSuitsOffset(i) ==
  \/ (inv[i].partSize = 0 /\ inv[i].status = 200)
  \/ (inv[i].partSize > 0 /\ inv[i].status = 206)

StatusFailed(i) ==
  inv[i].pc = "ended" /\ inv[i].requested /\ ~StatusSuitsOffset(i)

\* C4: a response is accepted only with status 200 at offset zero and 206
\* at a non-zero offset; with any other status the entry is Failed and
\* logged, nothing on disk is written, downloadContent returns without
\* raising, and the loop goes on to the next entry.
C4_StatusValidation ==
  /\ [](\A i \in Inv :
          /\ inv[i].pc \in {"stream", "copy", "organize", "rm"}
               => StatusSuitsOffset(i)
          /\ StatusFailed(i)
               => /\ inv[i].outcome = "Failed"
                  /\ inv[i].logged >= 1
                  /\ disk = inv[i].entry0)
  /\ [][\A i \in Inv :
          (StatusFailed(i) /\ inv'[i] # inv[i] /\ inv'[i].pc # "idle")
            => IF inv[i].cur < Len(inv[i].queue)
               THEN inv'[i].pc = "begin" /\ inv'[i].cur = inv[i].cur + 1
               ELSE inv'[i].pc = "done"]_vars

\* a fresh request answered with 206 has ended, and entries are left
C4_Witness ==
  \E i \in Inv :
    /\ StatusFailed(i)
    /\ inv[i].partSize = 0 /\ inv[i].status = 206
    /\ inv[i].cur < Len(inv[i].queue)

\* the body has ended and the partial file's size is not the declared total
SizeMismatch(i) ==
  /\ inv[i].pc = "ended"
  /\ inv[i].finished
  /\ inv[i].downloadedSize # ParseInt(inv[i].totalSize)

\* C5: when the partial file's size differs from the declared total after
\* the stream has ended, the entry is Failed without raising, nothing is
\* created at the final path, the organizer is not invoked, and the partial
\* file stays on disk with the bytes it had.
C5_SizeMismatch ==
  \A i \in Inv :
    SizeMismatch(i)
      => /\ inv[i].outcome = "Failed"
         /\ final = FinalAtBegin(i)
         /\ ~inv[i].organized
         /\ dirs = inv[i].entry0[3] /\ music = inv[i].entry0[4]
         /\ part[Name(i)] = inv[i].downloadedSize

\* both kinds of mismatch: fewer bytes than declared, and more
C5_Witness ==
  \E i \in Inv :
    /\ SizeMismatch(i)
    /\ inv[i].downloadedSize > ParseInt(inv[i].totalSize)
    /\ ParseInt(inv[i].totalSize) > 0

\* C6: the size of a partial file never decreases, and the file is removed
\* only by the last step of a promotion whose exact-size check passed,
\* after the copy to the final path.
C6_PartialPreserved ==
  [][\A n \in Names :
       part[n] # Absent =>
         \/ part'[n] >= part[n]
         \/ /\ part'[n] = Absent
            /\ \E i \in Inv :
                 /\ inv[i].pc = "rm" /\ Name(i) = n
                 /\ part[n] = ParseInt(inv[i].totalSize)
                 /\ inv'[i].pc = "ended" /\ inv'[i].outcome = "Completed"
                 /\ \/ final[n] = part[n]
                    \/ (musicDir /\ EndsWithZip(n))]_vars

\* a failed transfer has left its bytes in the partial file
C6_Witness ==
  \E i \in Inv :
    /\ inv[i].pc = "raised" /\ inv[i].err = "TransferStream"
    /\ part[Name(i)] > inv[i].partSize
    /\ inv[i].partSize > 0

\* C7: when a non-empty file exists at the final path, downloadContent
\* returns Skipped, issues no transfer request, and creates, modifies or
\* deletes nothing in the download root or the music library.
C7_SkipExisting ==
  \A i \in Inv :
    (inv[i].pc = "ended" /\ FinalAtBegin(i)[Name(i)] > 0)
      => /\ inv[i].outcome = "Skipped"
         /\ ~inv[i].requested
         /\ disk = inv[i].entry0

\* an entry was skipped although a partial file of it lies next to the
\* final file
C7_Witness ==
  \E i \in Inv :
    /\ inv[i].pc = "ended" /\ inv[i].outcome = "Skipped"
    /\ final[Name(i)] > 0
    /\ part[Name(i)] # Absent

Root(i) == inv[i].url[Len(inv[i].url)]

\* the leaf files below a node in depth-first document order
RECURSIVE Leaves(_)
Leaves(id) ==
  IF Nodes[id].type = "file" THEN <<id>>
  ELSE LET kids == Nodes[id].children
           F[k \in 0..Len(kids)] ==
             IF k = 0 THEN << >> ELSE F[k - 1] \o Leaves(kids[k])
       IN F[Len(kids)]

\* C9: after a successful resolution the manifest has exactly one entry per
\* leaf file, with the leaf's direct link and a non-empty filename that is
\* unique within the manifest.
C9_ManifestComplete ==
  \A i \in Inv :
    inv[i].pc = "resolved" =>
      LET m  == ObjectValues(filesInfo)
          lv == Leaves(Root(i))
      IN /\ Len(m) = Len(lv)
         /\ \A k \in 1..Len(lv) :
              \E j \in 1..Len(m) :
                /\ m[j].link = Nodes[lv[k]].link
                /\ m[j].filename = Nodes[lv[k]].name
         /\ \A j \in 1..Len(m) : m[j].filename # ""
         /\ \A j, k \in 1..Len(m) :
              j # k => m[j].filename # m[k].filename

\* C10: the entries are processed one at a time in depth-first document
\* order: the i-th entry processed is the i-th leaf file, and entry i+1
\* begins only after entry i has ended Completed, Skipped or Failed.
C10_DownloadOrder ==
  /\ [](\A i \in Inv :
          LET lv == Leaves(Root(i))
              p  == inv[i].processed
          IN /\ (inv[i].pc = "begin" \/ InEntry(i)) =>
                  /\ Len(p) = IF inv[i].pc = "begin"
                              THEN inv[i].cur - 1 ELSE inv[i].cur
                  /\ Len(p) <= Len(lv)
                  /\ \A k \in 1..Len(p) : p[k] = Nodes[lv[k]].link
             /\ (inv[i].pc = "done" /\ inv[i].queue # << >>) =>
                  p = [k \in 1..Len(lv) |-> Nodes[lv[k]].link])
  /\ [][\A i \in Inv :
          (inv'[i].pc = "begin" /\ inv[i].cur >= 1
             /\ inv'[i].cur # inv[i].cur)
            => /\ inv[i].pc = "ended"
               /\ inv[i].outcome \in {"Completed", "Skipped", "Failed"}
               /\ inv'[i].cur = inv[i].cur + 1]_vars

\* the file of r2 begins after the file of the folders nested before it
C10_Witness ==
  \E i \in Inv :
    /\ inv[i].pc = "begin" /\ inv[i].cur = 2
    /\ Root(i) = "r2"
    /\ inv[i].processed = <<"La2">>
    /\ Entry(i).link = "La"

\* ------------------------------------------------------------------ C11
\* the expected total of the entry in hand is absent, zero or no number
UnknownSize(i) ==
  \/ inv[i].totalSize = NoHeader
  \/ ParseInt(inv[i].totalSize) \in {0, NaNSeg}

\* C11: when the response was accepted but the expected total size is
\* absent, zero or not a number, the entry ends Failed and nothing is
\* promoted: the final files are those the entry began with (in particular
\* no empty final file comes from a declared size of 0).
C11_UnknownSizeFails ==
  \A i \in Inv :
    ( /\ inv[i].pc = "ended"
      /\ inv[i].requested
      /\ ~StatusRejected(inv[i].partSize, inv[i].status)
      /\ UnknownSize(i) )
    => /\ inv[i].outcome = "Failed"
       /\ final = FinalAtBegin(i)

\* ------------------------------------------------------------------ C12
\* C12: an entry that ends Failed has produced at least one message, through
\* the log or through the progress callback, by the time downloadContent
\* returns (so before the next entry begins or the invocation ends).
C12_NoSilentFailure ==
  \A i \in Inv :
    (inv[i].pc = "ended" /\ inv[i].outcome = "Failed")
    => (inv[i].logged >= 1 \/ inv[i].progressed)

\* ------------------------------------------------------------------ C13
\* the invocation has the partial file of its entry open for writing:
\* from createWriteStream (line 227) to the end of the stream (line 256)
Writing(i) == inv[i].pc = "stream"

\* C13: in every state, whatever the interleaving of the invocations on
\* the shared downloader, no two transfers have the same partial file open
\* for writing.
C13_OneWriterPerPartial ==
  \A i, j \in Inv :
    (i # j /\ Writing(i) /\ Writing(j))
    => Entry(i).filename # Entry(j).filename

\* ------------------------------------------------------------------ C14
\* C14: an invocation makes one token request, and every request it sends
\* carries the token that this request returned, also while another
\* invocation runs on the same downloader.
C14_TokenOwnership ==
  \A i \in Inv :
    /\ inv[i].tokenReqs <= 1
    /\ inv[i].pc \notin {"idle", "getToken"}
       => inv[i].usedTokens \subseteq {inv[i].myToken}

\* ------------------------------------------------------------------ C15
\* the URL ends with the segment 'd' and a non-empty content id
GoodShape(url) ==
  /\ Len(url) >= 2
  /\ url[Len(url) - 1] = "d"
  /\ url[Len(url)] # ""

\* C15: an invocation whose URL does not end with 'd' and a non-empty
\* content id is rejected with InvalidInput and never makes an outbound
\* request (no token request, no resolution or transfer request); an
\* invocation whose URL has that shape is not rejected as InvalidInput.
C15_RootUrlShape ==
  \A i \in Inv :
    inv[i].pc # "idle"
    => IF GoodShape(inv[i].url)
       THEN inv[i].err # "InvalidInput"
       ELSE /\ inv[i].pc = "raised" /\ inv[i].err = "InvalidInput"
            /\ inv[i].tokenReqs = 0
            /\ inv[i].usedTokens = {}

\* ------------------------------------------------------------------ C16
\* the invocation takes a step of its own (not the kill of the process)
Moves(i) == inv'[i] # inv[i] /\ inv'[i].pc # "idle"

\* C16: whatever fault strikes inside the organizer (extraction, copy of a
\* unit, removal of the archive or of the extraction directory), the call
\* returns normally with the fault logged, the partial file is then
\* removed, the entry is Completed, and the loop goes on to the next entry
\* (or ends normally after the last).
C16_OrganizerFailureContained ==
  /\ [][\A i \in Inv :
          (inv[i].pc = "organize" /\ Moves(i))
          => /\ inv'[i].pc = "rm"
             /\ inv'[i].org.fault # "none"
                => inv'[i].org.errors + inv'[i].org.itemErrors >= 1]_vars
  /\ [][\A i \in Inv :
          (inv[i].pc = "rm" /\ Moves(i))
          => /\ inv'[i].pc = "ended"
             /\ inv'[i].outcome = "Completed"
             /\ part'[Name(i)] = Absent]_vars
  /\ [][\A i \in Inv :
          (inv[i].pc = "ended" /\ inv[i].organized /\ Moves(i))
          => IF inv[i].cur < Len(inv[i].queue)
             THEN inv'[i].pc = "begin" /\ inv'[i].cur = inv[i].cur + 1
             ELSE inv'[i].pc = "done"]_vars

\* the extraction of m.zip failed, the entry is Completed all the same and
\* a.txt, the entry after it, is in hand
C16_Witness ==
  \E i \in Inv :
    /\ inv[i].pc = "fetching" /\ inv[i].cur = 2
    /\ inv[i].outcomes = <<"Completed">>
    /\ inv[i].processed = <<"Lm", "La">>
    /\ "m" \in dirs /\ final["m.zip"] # Absent
    /\ part["m.zip"] = Absent

\* ------------------------------------------------------------------ C17
\* the name contains the separator ' - '
HasSeparator(name) ==
  \E k \in 1..Len(name) :
    k + 2 <= Len(name) /\ SubSeq(name, k, k + 2) = Separator

\* a directory of the archive whose name does not parse as artist/album
Unclassifiable(item) == item.dir /\ ~HasSeparator(item.name)

\* the organizer has run for the entry in hand and extracted the archive
Organized(i) == inv[i].pc \in {"rm", "ended"} /\ inv[i].org.extracted

\* the music library when the organizer was called for the entry in hand
MusicBefore(i) == inv[i].entry0[4]

\* C17: after the organizer has gone through an extracted archive, the
\* music library, the units moved and the units found existing are what
\* they would be had the unclassifiable directories not been in the
\* archive, and the only extra effect is one error message for each of
\* them.
C17_ClassificationIsolated ==
  \A i \in Inv :
    Organized(i)
    => LET others == SelectSeq(ZipItems, LAMBDA it : ~Unclassifiable(it))
           nbad   == Len(SelectSeq(ZipItems, Unclassifiable))
           r      == OrganizeItems(others, MusicBefore(i),
                                   [NoOrg EXCEPT !.extracted = TRUE],
                                   inv[i].org.fault = "cp")
       IN /\ music = r.music
          /\ inv[i].org.moved = r.org.moved
          /\ inv[i].org.exists = r.org.exists
          /\ inv[i].org.itemErrors = r.org.itemErrors + nbad

\* the archive held an unclassifiable directory, and the directories
\* before and after it are in the music library
C17_Witness ==
  \E i \in Inv :
    /\ Organized(i)
    /\ \E k \in 2..(Len(ZipItems) - 1) :
         /\ Unclassifiable(ZipItems[k])
         /\ ZipItems[k - 1].dir /\ ZipItems[k + 1].dir
    /\ inv[i].org.itemErrors = 1
    /\ << <<"R">>, <<"L">> >> \in music
    /\ << <<"A">>, <<"B", " ", "-", " ", "C">> >> \in music

\* ------------------------------------------------------------------ C18
\* the organizer was called with a music root for an archive, and returned
OrganizerRan(i) ==
  /\ inv[i].pc \in {"rm", "ended"} /\ inv[i].organized
  /\ musicDir /\ EndsWithZip(Name(i))

FirstSeparator(name) ==
  CHOOSE k \in 1..Len(name) :
    /\ k + 2 <= Len(name) /\ SubSeq(name, k, k + 2) = Separator
    /\ \A j \in 1..(k - 1) : SubSeq(name, j, j + 2) # Separator

\* the text before the first separator, and the text after it
TextBefore(name) == SubSeq(name, 1, FirstSeparator(name) - 1)

TextAfter(name) == SubSeq(name, FirstSeparator(name) + 3, Len(name))

\* C19: for every directory the organizer classifies, the parse succeeds
\* exactly when the name holds the separator ' - '; then the artist is the
\* text before the first separator and the album all the text after it,
\* both are non-empty, and the unit's place in the music library is
\* <Artist>/<Album>.
C19_ParseArtistAlbum ==
  \A i \in Inv :
    \A k \in 1..Len(inv[i].org.units) :
      LET u == inv[i].org.units[k]
      IN /\ u.ok <=> HasSeparator(u.name)
         /\ u.ok => /\ u.artist = TextBefore(u.name)
                     /\ u.album = TextAfter(u.name)
                     /\ u.artist # << >> /\ u.album # << >>
                     /\ u.target = <<u.artist, u.album>>

\* ------------------------------------------------------------------ C20
\* C20: when a transfer resumed from k > 0 bytes was answered 206 by a
\* remote that honours the range, the total the size test used is the full
\* size of the remote file, that is k plus the bytes the body carried; and
\* a resumed transfer whose total could not be determined ended Failed.
C20_ResumedTotal ==
  \A i \in Inv :
    /\ ResumeHonoured(i)
       => /\ ParseInt(inv[i].totalSize) = Total(i)
          /\ ParseInt(inv[i].totalSize)
               = inv[i].partSize + (inv[i].downloadedSize - inv[i].partSize)
    /\ ( /\ inv[i].pc = "ended" /\ inv[i].requested
         /\ inv[i].partSize > 0 /\ inv[i].status = 206
         /\ ~Truthy(inv[i].totalSize) )
       => inv[i].outcome = "Failed"

\* ------------------------------------------------------------------ C22
\* the size of the entry's partial file when the entry began
PartAtBegin(i) == inv[i].entry0[2][Name(i)]

\* C22: the transfer request of an entry carries a Range header exactly
\* when a partial file of non-zero size was there when the entry began, and
\* then the range starts at that size; with no partial file, or an empty
\* one, the request has no Range header.
C22_RangeOnlyForNonEmptyPartial ==
  \A i \in Inv :
    (InEntry(i) /\ inv[i].requested)
    => /\ inv[i].hasRange <=> PartAtBegin(i) > 0
       /\ inv[i].hasRange => inv[i].partSize = PartAtBegin(i)

\* ------------------------------------------------------------------ C23
\* the entry in hand was resumed from k > 0 bytes and the remote answered
\* 200, the whole content, instead of 206
RangeIgnored(i) ==
  /\ inv[i].requested /\ inv[i].hasRange
  /\ inv[i].partSize > 0
  /\ inv[i].status = 200

\* C23: a resumed transfer that is answered 200 never opens the write
\* stream; the entry ends Failed with a message logged, the partial file
\* keeps its k bytes, and the final files are those the entry began with.
C23_RangeIgnoredFails ==
  \A i \in Inv :
    (InEntry(i) /\ RangeIgnored(i))
    => /\ inv[i].pc = "ended"
       /\ inv[i].outcome = "Failed"
       /\ inv[i].logged >= 1
       /\ ~inv[i].finished /\ ~inv[i].progressed
       /\ part[Name(i)] = inv[i].partSize
       /\ part[Name(i)] = PartAtBegin(i)
       /\ final = FinalAtBegin(i)

\* a.txt resumed from 1 byte, answered 200 with the full length declared
C23_Witness ==
  \E i \in Inv :
    /\ inv[i].pc = "ended" /\ RangeIgnored(i)
    /\ inv[i].contentLength = <<Total(i)>>
    /\ inv[i].partSize = 1 /\ part[Name(i)] = 1

\* ------------------------------------------------------------------ C27
\* the sizes of the remote files that go by the name
DeclaredSizes(name) == {Nodes[n].size : n \in {f \in FileIds :
                                                 Nodes[f].name = name}}

\* C27: in every state a non-empty file at a final path has the full size
\* of a remote file of that name, so the skip test of line 190 accepts
\* complete files only.
C27_FinalIsVerified ==
  \A name \in Names :
    (final[name] # Absent /\ final[name] > 0)
    => final[name] \in DeclaredSizes(name)
\* the body the remote has sent so far is within the Content-Length it
\* declared
WithinDeclared(i) ==
  /\ inv[i].contentLength # NoHeader
  /\ ParseInt(inv[i].contentLength) # NaNSeg
  /\ inv[i].downloadedSize - inv[i].partSize
       <= ParseInt(inv[i].contentLength)

\* C28: while the remote keeps to the length it declared, every progress
\* message of a fresh or resumed transfer is computed from a downloaded
\* size between 0 and the total the percentage is taken of, so the
\* percentage lies between 0 and 100
C28_ProgressBounded ==
  \A i \in Inv :
    (inv[i].pc = "stream" /\ inv[i].progressed /\ WithinDeclared(i))
    => /\ 0 <= inv[i].reported
       /\ inv[i].reported <= ParseInt(inv[i].totalSize)

\* ------------------------------------------------------------------ C29
\* the manifest a resolution of the invocation's own root builds on an empty
\* downloader: the leaves in document order under the keys 1, 2, ...
OwnManifest(i) ==
  LET lv == Leaves(Root(i))
  IN [k \in 1..Len(lv) |-> EntryOf(lv[k])]

\* C29: whenever download() has returned or raised, on whatever path, the
\* manifest is empty and the index is 0; so the resolution of a later
\* invocation that does not overlap another one ends with its own entries
\* only, under the keys 1..n.
C29_ManifestReset ==
  /\ (\A i \in Inv : inv[i].pc \in {"idle", "done", "raised"})
       => (filesInfo = NoFiles /\ recursiveFilesIndex = 0)
  /\ \A i \in Inv :
       (inv[i].pc = "resolved" /\ \A j \in Inv \ {i} : inv[j].pc = "idle")
       => /\ filesInfo = OwnManifest(i)
          /\ recursiveFilesIndex = Len(Leaves(Root(i)))

\* a second invocation has resolved its entries after an invocation that
\* did not end cleanly
C29_Witness ==
  \E i \in Inv :
    /\ inv[i].pc = "resolved"
    /\ lastRun.url # << >> /\ ~lastRun.clean
    /\ DOMAIN filesInfo = {1, 2}

\* ------------------------------------------------------------------ C24
\* C24: the entries an invocation hands to the download engine are exactly
\* the leaves of its own root, each once, in document order, whatever other
\* invocation resolves or ends on the shared downloader meanwhile.
C24_ManifestIsolation ==
  \A i \in Inv :
    inv[i].queue # << >> => inv[i].queue = OwnManifest(i)

\* ------------------------------------------------------------------ C25
\* the progress callback has raised in the transfer of invocation i
CallbackRaised(i) == inv[i].err = "CallbackError"

\* C25: a progress callback that raises changes nothing: in the step in
\* which it raises the chunk is appended to the partial file as with a
\* callback that does nothing, and the invocation is still transferring the
\* same entry with the same entries left to process.
C25_CallbackCannotFail ==
  [][\A i \in Inv :
       (inv[i].pc = "stream" /\ ~CallbackRaised(i) /\ CallbackRaised(i)')
       => /\ inv'[i].pc = "stream"
          /\ inv'[i].queue = inv[i].queue /\ inv'[i].cur = inv[i].cur
          /\ part' = [part EXCEPT ![Name(i)] = @ + 1]
          /\ final' = final]_vars

\* ------------------------------------------------------------------ C26
\* invocation i's organizer runs on an archive in this step
OrganizerStep(i) ==
  /\ inv[i].pc = "organize" /\ inv'[i].pc = "rm"
  /\ musicDir /\ EndsWithZip(Name(i))

\* C26: the organizer extracts into a directory that did not exist before
\* the call, and apart from the archive nothing that was under the download
\* root before it ran is changed or removed: every directory is still
\* there, every other final file and every partial file is as it was.
C26_FreshExtractionDir ==
  [][\A i \in Inv :
       OrganizerStep(i)
       => /\ Basename(Name(i)) \notin dirs
          /\ dirs \subseteq dirs'
          /\ part' = part
          /\ \A n \in Names \ {Name(i)} : final'[n] = final[n]]_vars

\* ------------------------------------------------------------------ C21
\* the names of the files the root's manifest has entries for
LeafNames(id) == {Nodes[Leaves(id)[k]].name : k \in 1..Len(Leaves(id))}

\* C21: with a caller that retries for ever and a remote that honours
\* ranges, every entry of the manifest is eventually promoted: a file of
\* its name comes to stand at the final path.
C21_EventualCompletion ==
  \A n \in Names :
    (n \in LeafNames(root)) => <>(final[n] # Absent)

====
